---- MODULE Spec2Model ----
(***************************************************************************)
(* tiny-keccak (src/src/lib.rs): the Keccak-f[1600] permutation and the    *)
(* sponge driver `Keccak` (update / finalize / clone) built on it.         *)
(*                                                                         *)
(* A lane (u64) is the tuple of its eight bytes, least significant first:  *)
(* lane[k + 1] holds bits 8k .. 8k+7 of the u64.  This is the VALUE of the *)
(* lane, not its layout in memory: the layout is the host's (see           *)
(* as_bytes_slice).  The state `a: [u64; PLEN]` is the tuple of its 25     *)
(* lanes; lane i of the source is element i + 1 of the tuple.              *)
(***************************************************************************)
EXTENDS Integers, Sequences, FiniteSets, TLC

----------------------------------------------------------------------------
(* Bounds of the model.                                                    *)

\* update calls per behaviour of SpecAbsorb
MaxUpdates == 2
\* update calls per behaviour of Spec (the whole life of a driver and its clone)
MaxCalls == 2
\* whole rate-sized blocks in the long input chunk (its length is this many rates, plus one)
LongBlocks == 1
\* whole rate-sized blocks in the longest output buffer (its length is this many rates, plus one)
OutBlocks == 1
\* cells of the caller's memory modelled behind the output buffer
GuardLen == 2
\* update calls per behaviour of SpecSteps
MaxStepUpdates == 2
\* arrays handed to keccakf by SpecKeccakf, beside the all-zero one
MaxSeed == 3

----------------------------------------------------------------------------
(* Bytes and u64 lanes.                                                    *)

RECURSIVE BitXor(_, _, _)
\* x ^ y on n-bit operands
BitXor(x, y, n) ==
  IF n = 0 THEN 0
  ELSE ((x + y) % 2) + 2 * BitXor(x \div 2, y \div 2, n - 1)

RECURSIVE BitAnd(_, _, _)
\* x & y on n-bit operands
BitAnd(x, y, n) ==
  IF n = 0 THEN 0
  ELSE ((x % 2) * (y % 2)) + 2 * BitAnd(x \div 2, y \div 2, n - 1)

\* u8 ^ u8 and u8 & u8, tabulated once: XorTab[x + 1][y + 1] = x ^ y
XorTab == [x \in 1..256 |-> [y \in 1..256 |-> BitXor(x - 1, y - 1, 8)] \o <<>>] \o <<>>
AndTab == [x \in 1..256 |-> [y \in 1..256 |-> BitAnd(x - 1, y - 1, 8)] \o <<>>] \o <<>>

\* 1 << s for s in 0..8
Pow2 == <<1, 2, 4, 8, 16, 32, 64, 128, 256>>

\* u8 ^ u8
bxor(x, y) == XorTab[x + 1][y + 1]

\* p ^ q on u64
xor(p, q) ==
  <<XorTab[p[1] + 1][q[1] + 1],
    XorTab[p[2] + 1][q[2] + 1],
    XorTab[p[3] + 1][q[3] + 1],
    XorTab[p[4] + 1][q[4] + 1],
    XorTab[p[5] + 1][q[5] + 1],
    XorTab[p[6] + 1][q[6] + 1],
    XorTab[p[7] + 1][q[7] + 1],
    XorTab[p[8] + 1][q[8] + 1]>>

\* p ^ (!q & r) on u64
xor_not_and(p, q, r) ==
  <<XorTab[p[1] + 1][AndTab[256 - q[1]][r[1] + 1] + 1],
    XorTab[p[2] + 1][AndTab[256 - q[2]][r[2] + 1] + 1],
    XorTab[p[3] + 1][AndTab[256 - q[3]][r[3] + 1] + 1],
    XorTab[p[4] + 1][AndTab[256 - q[4]][r[4] + 1] + 1],
    XorTab[p[5] + 1][AndTab[256 - q[5]][r[5] + 1] + 1],
    XorTab[p[6] + 1][AndTab[256 - q[6]][r[6] + 1] + 1],
    XorTab[p[7] + 1][AndTab[256 - q[7]][r[7] + 1] + 1],
    XorTab[p[8] + 1][AndTab[256 - q[8]][r[8] + 1] + 1]>>

\* u64::rotate_left(p, r), 0 <= r < 64: byte k of the result takes the low bits
\* of byte k - r/8 moved up by r%8 and the high bits of the byte below it.
rotate_left(p, r) ==
  LET q == r \div 8
      s == r % 8
      B(k) == ((p[((k + 8 - q) % 8) + 1] * Pow2[s + 1]) % 256)
              + (p[((k + 15 - q) % 8) + 1] \div Pow2[9 - s])
  IN <<B(0), B(1), B(2), B(3), B(4), B(5), B(6), B(7)>>

\* 0u64
Zero == <<0, 0, 0, 0, 0, 0, 0, 0>>

----------------------------------------------------------------------------
(* The constant tables.                                                    *)

RHO ==
  <<1, 3, 6, 10, 15, 21,
    28, 36, 45, 55, 2, 14,
    27, 41, 56, 8, 25, 43,
    62, 18, 39, 61, 20, 44>>

PI ==
  <<10, 7, 11, 17, 18, 3,
    5, 16, 8, 21, 24, 4,
    15, 23, 19, 13, 12, 2,
    20, 14, 22, 9, 6, 1>>

\* RC[i + 1] is round constant i, as a lane
RC ==
  <<<<1, 0, 0, 0, 0, 0, 0, 0>>,
   <<130, 128, 0, 0, 0, 0, 0, 0>>,
   <<138, 128, 0, 0, 0, 0, 0, 128>>,
   <<0, 128, 0, 128, 0, 0, 0, 128>>,
   <<139, 128, 0, 0, 0, 0, 0, 0>>,
   <<1, 0, 0, 128, 0, 0, 0, 0>>,
   <<129, 128, 0, 128, 0, 0, 0, 128>>,
   <<9, 128, 0, 0, 0, 0, 0, 128>>,
   <<138, 0, 0, 0, 0, 0, 0, 0>>,
   <<136, 0, 0, 0, 0, 0, 0, 0>>,
   <<9, 128, 0, 128, 0, 0, 0, 0>>,
   <<10, 0, 0, 128, 0, 0, 0, 0>>,
   <<139, 128, 0, 128, 0, 0, 0, 0>>,
   <<139, 0, 0, 0, 0, 0, 0, 128>>,
   <<137, 128, 0, 0, 0, 0, 0, 128>>,
   <<3, 128, 0, 0, 0, 0, 0, 128>>,
   <<2, 128, 0, 0, 0, 0, 0, 128>>,
   <<128, 0, 0, 0, 0, 0, 0, 128>>,
   <<10, 128, 0, 0, 0, 0, 0, 0>>,
   <<10, 0, 0, 128, 0, 0, 0, 128>>,
   <<129, 128, 0, 128, 0, 0, 0, 128>>,
   <<128, 128, 0, 0, 0, 0, 0, 128>>,
   <<1, 0, 0, 128, 0, 0, 0, 0>>,
   <<8, 128, 0, 128, 0, 0, 0, 128>>>>

\* Total number of lanes.
PLEN == 25

----------------------------------------------------------------------------
(* keccakf: 24 rounds, each written as the source writes it.               *)

\* Theta, first FOR5 nest: b[x] = 0; b[x] ^= a[x + y] for y = 0, 5, .., 20
theta_b(a) ==
  LET col(x) == xor(xor(xor(xor(xor(Zero, a[x + 1]), a[x + 6]), a[x + 11]), a[x + 16]), a[x + 21])
  IN <<col(0), col(1), col(2), col(3), col(4)>>

\* Theta, second FOR5 nest, the right-hand side for each x:
\*   b[(x + 4) % 5] ^ b[(x + 1) % 5].rotate_left(1)
theta_d(b) ==
  LET d(x) == xor(b[((x + 4) % 5) + 1], rotate_left(b[((x + 1) % 5) + 1], 1))
  IN <<d(0), d(1), d(2), d(3), d(4)>>

\* Theta, second FOR5 nest, the assignments: a[y + x] ^= e[x]
theta_a(a, e) ==
  <<xor(a[1], e[1]),
    xor(a[2], e[2]),
    xor(a[3], e[3]),
    xor(a[4], e[4]),
    xor(a[5], e[5]),
    xor(a[6], e[1]),
    xor(a[7], e[2]),
    xor(a[8], e[3]),
    xor(a[9], e[4]),
    xor(a[10], e[5]),
    xor(a[11], e[1]),
    xor(a[12], e[2]),
    xor(a[13], e[3]),
    xor(a[14], e[4]),
    xor(a[15], e[5]),
    xor(a[16], e[1]),
    xor(a[17], e[2]),
    xor(a[18], e[3]),
    xor(a[19], e[4]),
    xor(a[20], e[5]),
    xor(a[21], e[1]),
    xor(a[22], e[2]),
    xor(a[23], e[3]),
    xor(a[24], e[4]),
    xor(a[25], e[5])>>

\* Theta
theta(a) == theta_a(a, theta_d(theta_b(a)))

RECURSIVE rho_pi_from_no_temp(_, _, _)
\* REPEAT24 without the temporary b[0]: t is read back after the store
rho_pi_from_no_temp(a, t, x) ==
  IF x = 24 THEN a
  ELSE rho_pi_from_no_temp([a EXCEPT ![PI[x + 1] + 1] = rotate_left(t, RHO[x + 1])],
                           rotate_left(t, RHO[x + 1]), x + 1)

RECURSIVE rho_pi_from(_, _, _)
\* Rho and pi, the REPEAT24 body from step x on, with t the lane in flight:
\*   b[0] = a[PI[x]]; a[PI[x]] = t.rotate_left(RHO[x]); then t = b[0]; x += 1
rho_pi_from(a, t, x) ==
  IF x = 24 THEN a
  ELSE rho_pi_from([a EXCEPT ![PI[x + 1] + 1] = rotate_left(t, RHO[x + 1])],
                   a[PI[x + 1] + 1], x + 1)

\* Rho and pi: t = a[1]; x = 0; REPEAT24
rho_pi(a) == rho_pi_from(a, a[2], 0)

\* Chi on the row y: b[x] = a[y + x]; a[y + x] = b[x] ^ (!b[(x + 1) % 5] & b[(x + 2) % 5])
chi_row(a, y) ==
  LET b == <<a[y + 1], a[y + 2], a[y + 3], a[y + 4], a[y + 5]>>
      c(x) == xor_not_and(b[x + 1], b[((x + 1) % 5) + 1], b[((x + 2) % 5) + 1])
  IN <<c(0), c(1), c(2), c(3), c(4)>>

\* Chi: FOR5 over y = 0, 5, .., 20
chi(a) ==
  chi_row(a, 0) \o chi_row(a, 5) \o chi_row(a, 10) \o chi_row(a, 15) \o chi_row(a, 20)

\* Iota: a[0] ^= RC[i]
iota(a, i) == [a EXCEPT ![1] = xor(a[1], RC[i + 1])]

\* the body of `for i in 0..24`
round(a, i) == iota(chi(rho_pi(theta(a))), i)

RECURSIVE rounds_from(_, _)
\* after round i, with r its result: the slice keeps its PLEN lanes; testing
\* it also settles r before round i + 1 reads it
rounds_after(r, i) == IF Len(r) = PLEN THEN rounds_from(r, i + 1) ELSE r

\* rounds i .. 23 of `for i in 0..24`
rounds_from(a, i) == IF i = 24 THEN a ELSE rounds_after(round(a, i), i)

\* keccak-f[1600]
keccakf(a) == rounds_from(a, 0)

----------------------------------------------------------------------------
(* The state of the program.                                               *)

VARIABLES
  host,     \* byte order of the target the crate is built for
  drv,      \* drv[i]: the Keccak value in slot i (a, offset, rate, delim)
  status,   \* status[i]: "unused", "absorbing" (owned by the caller) or
            \*            "finalized" (moved into finalize)
  out,      \* out[i]: the caller's memory at the output buffer of slot i's
            \*         finalize: the buffer, then GuardLen cells behind it
  outlen,   \* outlen[i]: output.len() of slot i's finalize
  variant,  \* variant[i]: the constructor slot i's driver comes from
  msg,      \* msg[i]: every input byte slot i's driver has been given
  nupd,     \* nupd[i]: update calls made on slot i
  nfin,     \* nfin[i]: finalize calls made on slot i
  trace,    \* trace[i]: what the absorb calls of slot i did, in order
  fin,      \* fin[i]: what slot i's finalize did (padded lanes, events)
  prev,     \* prev[i]: slot i's driver before its latest update call
  lastx,    \* lastx[i]: the input of slot i's latest update call
  ncalls,   \* update calls made so far, on any slot
  pc,       \* where the call running on slot 1 stands: "idle" between calls,
            \* a place inside absorb, finalize or squeeze, "done" after finalize
  loc,      \* the locals of that call (input, rate, ip, l, op)
  kf        \* a call of the public keccakf on a caller's array: the array
            \* before the call (a0), the array now (a), the round counter (i)

vars ==
  <<host, drv, status, out, outlen, variant, msg, nupd, nfin, trace, fin,
    prev, lastx, ncalls, pc, loc, kf>>

Hosts == {"little", "big"}

Inst == {1, 2}

----------------------------------------------------------------------------
(* The lanes seen as bytes.                                                *)

\* which byte of a lane's value lies at address m of the lane array: the
\* source reinterprets the u64 memory, so this is the host's byte order
lane_byte(m) == IF host = "little" THEN m % 8 ELSE 7 - (m % 8)

\* as_bytes_slice(ints): ints.len() * 8 bytes; byte m is element m + 1
as_bytes_slice(ints) ==
  [m \in 1..(Len(ints) * 8) |->
     ints[((m - 1) \div 8) + 1][lane_byte(m - 1) + 1]] \o <<>>

\* as_mut_bytes_slice(ints) is the same view of the same memory
as_mut_bytes_slice(ints) == as_bytes_slice(ints)

\* the lanes whose memory holds `bytes`: what a write through the mutable
\* view leaves in the lane array
lanes_of(bytes) ==
  [i \in 1..(Len(bytes) \div 8) |->
     [k \in 1..8 |-> bytes[(8 * (i - 1)) + lane_byte(k - 1) + 1]] \o <<>>] \o <<>>

\* xorin(dst, src, len): dst[i] ^= src[i] for i in 0..len
xorin(dst, src, len) ==
  [i \in 1..Len(dst) |-> IF i <= len THEN bxor(dst[i], src[i]) ELSE dst[i]] \o <<>>

\* a value no write stores: a cell of the caller's memory not written yet
Untouched == 256

\* setout(src, dst, len) with dst = &mut output[op..]: ptr::copy of len bytes.
\* mem is the caller's memory from the start of output on; a copy running
\* past the modelled cells is cut off there.
setout(src, mem, op, len) ==
  [m \in 1..Len(mem) |->
     IF op < m /\ m <= op + len THEN src[m - op] ELSE mem[m]] \o <<>>

\* s[from..]
slice_from(s, from) == SubSeq(s, from + 1, Len(s))

----------------------------------------------------------------------------
(* struct Keccak and its operations.                                       *)

\* [0; PLEN]
zero_lanes == [i \in 1..PLEN |-> Zero] \o <<>>

\* Keccak::new
new(rate, delim) ==
  [a |-> zero_lanes, offset |-> 0, rate |-> rate, delim |-> delim]

\* impl_constructor with the capacity taken as bits/8
impl_constructor_bits8(bits, delim) == new(200 - (bits \div 8), delim)

\* impl_constructor!(name, bits, delim): Keccak::new(200 - bits/4, delim)
impl_constructor(bits, delim) == new(200 - (bits \div 4), delim)

new_shake128 == impl_constructor(128, 31)
new_shake256 == impl_constructor(256, 31)
new_keccak224 == impl_constructor(224, 1)
new_keccak256 == impl_constructor(256, 1)
new_keccak384 == impl_constructor(384, 1)
new_keccak512 == impl_constructor(512, 1)
new_sha3_224 == impl_constructor(224, 6)
new_sha3_256 == impl_constructor(256, 6)
new_sha3_384 == impl_constructor(384, 6)
new_sha3_512 == impl_constructor(512, 6)

Variants ==
  {"new_shake128", "new_shake256", "new_keccak224", "new_keccak256",
   "new_keccak384", "new_keccak512", "new_sha3_224", "new_sha3_256",
   "new_sha3_384", "new_sha3_512"}

\* the call Keccak::<v>()
construct(v) ==
  CASE v = "new_shake128" -> new_shake128
    [] v = "new_shake256" -> new_shake256
    [] v = "new_keccak224" -> new_keccak224
    [] v = "new_keccak256" -> new_keccak256
    [] v = "new_keccak384" -> new_keccak384
    [] v = "new_keccak512" -> new_keccak512
    [] v = "new_sha3_224" -> new_sha3_224
    [] v = "new_sha3_256" -> new_sha3_256
    [] v = "new_sha3_384" -> new_sha3_384
    [] v = "new_sha3_512" -> new_sha3_512

\* clone that starts the copy at offset 0
clone_offset_reset(self) ==
  [a |-> SubSeq(self.a, 1, Len(self.a)), offset |-> 0,
   rate |-> self.rate, delim |-> self.delim]

\* impl Clone for Keccak: res is uninitialized, then every field is written
clone(self) ==
  LET res == [a |-> "uninitialized", offset |-> "uninitialized",
              rate |-> "uninitialized", delim |-> "uninitialized"]
  IN [res EXCEPT !.a = SubSeq(self.a, 1, Len(self.a)),
                 !.offset = self.offset,
                 !.rate = self.rate,
                 !.delim = self.delim]

RECURSIVE absorb_while_gt(_, _, _, _, _, _)
\* absorb's loop with the test `while l > rate`
absorb_while_gt(self, input, rate, ip, l, ev) ==
  IF l > rate
  THEN LET a == as_mut_bytes_slice(self.a)
           x == lanes_of(SubSeq(a, 1, self.offset)
                         \o xorin(slice_from(a, self.offset), slice_from(input, ip), rate))
           p == keccakf(x)
       IN IF Len(p) = PLEN
          THEN absorb_while_gt([self EXCEPT !.a = p, !.offset = 0], input,
                               self.rate, ip + rate, l - rate,
                               ev \o << <<"xorin", ip, self.offset, rate>>, <<"keccakf">> >>)
          ELSE [self |-> self, ip |-> ip, l |-> l, ev |-> ev]
  ELSE [self |-> self, ip |-> ip, l |-> l, ev |-> ev]

RECURSIVE absorb_while_keep_offset(_, _, _, _, _, _)
\* absorb's loop without `self.offset = 0`
absorb_while_keep_offset(self, input, rate, ip, l, ev) ==
  IF l >= rate
  THEN LET a == as_mut_bytes_slice(self.a)
           x == lanes_of(SubSeq(a, 1, self.offset)
                         \o xorin(slice_from(a, self.offset), slice_from(input, ip), rate))
           p == keccakf(x)
       IN IF Len(p) = PLEN
          THEN absorb_while_keep_offset([self EXCEPT !.a = p], input,
                                        self.rate, ip + rate, l - rate,
                                        ev \o << <<"xorin", ip, self.offset, rate>>, <<"keccakf">> >>)
          ELSE [self |-> self, ip |-> ip, l |-> l, ev |-> ev]
  ELSE [self |-> self, ip |-> ip, l |-> l, ev |-> ev]

RECURSIVE absorb_while(_, _, _, _, _, _)
\* absorb's loop `while l >= rate`, from the locals (rate, ip, l) on; ev lists
\* what the call did so far: <<"xorin", ip, offset, len>> and <<"keccakf">>
absorb_while(self, input, rate, ip, l, ev) ==
  IF l >= rate
  THEN LET a == as_mut_bytes_slice(self.a)
           x == lanes_of(SubSeq(a, 1, self.offset)
                         \o xorin(slice_from(a, self.offset), slice_from(input, ip), rate))
           p == keccakf(x)
       IN IF Len(p) = PLEN
          THEN absorb_while([self EXCEPT !.a = p, !.offset = 0], input,
                            self.rate, ip + rate, l - rate,
                            ev \o << <<"xorin", ip, self.offset, rate>>, <<"keccakf">> >>)
          ELSE [self |-> self, ip |-> ip, l |-> l, ev |-> ev]
  ELSE [self |-> self, ip |-> ip, l |-> l, ev |-> ev]

\* the end of absorb with `self.offset = l` in place of `self.offset += l`
absorb_last_offset_set(w, input) ==
  LET a == as_mut_bytes_slice(w.self.a)
      x == lanes_of(SubSeq(a, 1, w.self.offset)
                    \o xorin(slice_from(a, w.self.offset), slice_from(input, w.ip), w.l))
  IN [self |-> [w.self EXCEPT !.a = x, !.offset = w.l],
      ev |-> w.ev \o << <<"xorin", w.ip, w.self.offset, w.l>> >>]

\* the end of absorb, w being where its loop stopped: xorin of the last l
\* bytes, then self.offset += l
absorb_last(w, input) ==
  LET a == as_mut_bytes_slice(w.self.a)
      x == lanes_of(SubSeq(a, 1, w.self.offset)
                    \o xorin(slice_from(a, w.self.offset), slice_from(input, w.ip), w.l))
  IN [self |-> [w.self EXCEPT !.a = x, !.offset = w.self.offset + w.l],
      ev |-> w.ev \o << <<"xorin", w.ip, w.self.offset, w.l>> >>]

\* Keccak::absorb: the driver after the call, and what the call did
absorb(self, input) ==
  absorb_last(absorb_while(self, input, self.rate - self.offset, 0, Len(input), <<>>), input)

\* Keccak::update
update(self, input) == absorb(self, input)

\* Keccak::pad
\* pad whose second store reads the byte as it was before the first
pad_second_from_old(self) ==
  LET a == as_mut_bytes_slice(self.a)
      a1 == [a EXCEPT ![self.offset + 1] = bxor(a[self.offset + 1], self.delim)]
      a2 == [a1 EXCEPT ![(self.rate - 1) + 1] = bxor(a[(self.rate - 1) + 1], 128)]
  IN [self EXCEPT !.a = lanes_of(a2)]

pad(self) ==
  LET a == as_mut_bytes_slice(self.a)
      a1 == [a EXCEPT ![self.offset + 1] = bxor(a[self.offset + 1], self.delim)]
      a2 == [a1 EXCEPT ![(self.rate - 1) + 1] = bxor(a1[(self.rate - 1) + 1], 128)]
  IN [self EXCEPT !.a = lanes_of(a2)]

RECURSIVE squeeze_while_no_permute(_, _, _, _, _)
\* squeeze's loop without the keccakf between two chunks
squeeze_while_no_permute(self, mem, op, l, ev) ==
  IF l >= self.rate
  THEN LET m == setout(as_bytes_slice(self.a), mem, op, self.rate)
       IN squeeze_while_no_permute(self, m, op + self.rate, l - self.rate,
                                   ev \o << <<"setout", op, self.rate>> >>)
  ELSE [self |-> self, mem |-> mem, op |-> op, l |-> l, ev |-> ev]

RECURSIVE squeeze_while(_, _, _, _, _)
\* squeeze's loop `while l >= rate`; mem is the caller's memory at output
squeeze_while(self, mem, op, l, ev) ==
  IF l >= self.rate
  THEN LET m == setout(as_bytes_slice(self.a), mem, op, self.rate)
           p == keccakf(self.a)
       IN IF Len(p) = PLEN
          THEN squeeze_while([self EXCEPT !.a = p], m, op + self.rate, l - self.rate,
                             ev \o << <<"setout", op, self.rate>>, <<"keccakf">> >>)
          ELSE [self |-> self, mem |-> mem, op |-> op, l |-> l, ev |-> ev]
  ELSE [self |-> self, mem |-> mem, op |-> op, l |-> l, ev |-> ev]

\* the end of squeeze with one more keccakf before the last chunk
squeeze_last_permuted(w) ==
  LET p == keccakf(w.self.a)
  IN [self |-> [w.self EXCEPT !.a = p],
      mem |-> setout(as_bytes_slice(p), w.mem, w.op, w.l),
      ev |-> w.ev \o << <<"keccakf">>, <<"setout", w.op, w.l>> >>]

\* the end of squeeze, w being where its loop stopped: setout of the last l bytes
squeeze_last(w) ==
  [self |-> w.self,
   mem |-> setout(as_bytes_slice(w.self.a), w.mem, w.op, w.l),
   ev |-> w.ev \o << <<"setout", w.op, w.l>> >>]

\* Keccak::squeeze, output being the first len cells of mem
squeeze(self, mem, len) == squeeze_last(squeeze_while(self, mem, 0, len, <<>>))

\* finalize returning as if it took `&mut self`: the caller keeps the driver
finalize_borrowed(p, s) ==
  [self |-> s.self, mem |-> s.mem, ev |-> s.ev, padded |-> p.a, moved |-> FALSE]

\* the return of finalize, p being the driver after pad and s what squeeze
\* did: self was moved into the call and is dropped here
finalize_return(p, s) ==
  [self |-> s.self, mem |-> s.mem, ev |-> s.ev, padded |-> p.a, moved |-> TRUE]

\* finalize after self.pad(): keccakf(&mut self.a), then self.squeeze(output)
finalize_padded(p, mem, len) ==
  finalize_return(p, squeeze([p EXCEPT !.a = keccakf(p.a)], mem, len))

\* Keccak::finalize(mut self, output)
finalize(self, mem, len) == finalize_padded(pad(self), mem, len)

----------------------------------------------------------------------------
(* The calls a program makes.                                              *)

\* no Keccak value
NoDriver == [a |-> <<>>, offset |-> 0, rate |-> 0, delim |-> 0]

NoFin == [padded |-> <<>>, ev |-> <<>>]

\* no call is running: no locals
NoLocals == [input |-> <<>>, rate |-> 0, ip |-> 0, l |-> 0, op |-> 0]

\* no call of keccakf on an array of the caller
NoKeccakf == [a0 |-> <<>>, a |-> <<>>, i |-> 0, ph |-> "none"]

\* b"hello"
Hello == <<104, 101, 108, 108, 111>>

\* an input of n bytes
Pattern(n) == [j \in 1..n |-> ((37 * j) + n) % 256] \o <<>>

\* the inputs tried on a driver: empty, short, one that ends exactly at the
\* block boundary, one that runs over LongBlocks boundaries or more
Chunks(self) ==
  {<<>>, Hello, Pattern(self.rate - self.offset), Pattern((LongBlocks * self.rate) + 1)}

\* the inputs tried on a driver that is also cloned and finalized
LifeChunks == {Hello}

\* digest length of the fixed-output constructors (bits / 8)
DigestLen(v) ==
  CASE v \in {"new_keccak224", "new_sha3_224"} -> 28
    [] v \in {"new_keccak256", "new_sha3_256"} -> 32
    [] v \in {"new_keccak384", "new_sha3_384"} -> 48
    [] v \in {"new_keccak512", "new_sha3_512"} -> 64
    [] OTHER -> 32

\* the output lengths tried: none, a digest, one whole block, OutBlocks blocks
\* and a byte; the clone's buffer is one whole block
OutLens(i) ==
  IF i = 1
  THEN {0, DigestLen(variant[i]), drv[i].rate, (OutBlocks * drv[i].rate) + 1}
  ELSE {drv[i].rate}

\* the caller's memory before finalize: the buffer and the cells behind it
FreshMem(len) == [m \in 1..(len + GuardLen) |-> Untouched] \o <<>>

\* let mut k = Keccak::<v>();
Construct(v) ==
  /\ drv = <<construct(v), NoDriver>>
  /\ status = <<"absorbing", "unused">>
  /\ variant = <<v, "none">>
  /\ out = <<<<>>, <<>>>>
  /\ outlen = <<0, 0>>
  /\ msg = <<<<>>, <<>>>>
  /\ nupd = <<0, 0>>
  /\ nfin = <<0, 0>>
  /\ trace = <<<<>>, <<>>>>
  /\ fin = <<NoFin, NoFin>>
  /\ prev = <<construct(v), NoDriver>>
  /\ lastx = <<<<>>, <<>>>>
  /\ ncalls = 0
  /\ pc = "idle"
  /\ loc = NoLocals

\* the constructors tried by Spec: an extendable-output one and fixed-output
\* one of each other delimiter
LifeVariants == {"new_shake128", "new_keccak256", "new_sha3_256"}

Init ==
  /\ host \in Hosts
  /\ kf = NoKeccakf
  /\ \E v \in LifeVariants : Construct(v)

InitAbsorb ==
  /\ host \in Hosts
  /\ kf = NoKeccakf
  /\ \E v \in Variants : Construct(v)

\* an event of an absorb call, its input index counted from the start of the
\* driver's whole input
Rebase(e, base) == IF e[1] = "xorin" THEN <<e[1], e[2] + base, e[3], e[4]>> ELSE e

\* k.update(input) on the driver of slot i
Update(i, input) ==
  /\ status[i] = "absorbing"
  /\ \E r \in {update(drv[i], input)} :
        /\ drv' = [drv EXCEPT ![i] = r.self]
        /\ trace' = [trace EXCEPT ![i] = @ \o [n \in 1..Len(r.ev) |-> Rebase(r.ev[n], Len(msg[i]))]]
  /\ prev' = [prev EXCEPT ![i] = drv[i]]
  /\ lastx' = [lastx EXCEPT ![i] = input]
  /\ msg' = [msg EXCEPT ![i] = @ \o input]
  /\ nupd' = [nupd EXCEPT ![i] = @ + 1]
  /\ ncalls' = ncalls + 1
  /\ UNCHANGED <<host, status, out, outlen, variant, nfin, fin, pc, loc, kf>>

\* let c = k.clone(); with k in slot i and c in slot j
Clone(i, j) ==
  /\ status[i] = "absorbing"
  /\ status[j] = "unused"
  /\ drv' = [drv EXCEPT ![j] = clone(drv[i])]
  /\ status' = [status EXCEPT ![j] = "absorbing"]
  /\ variant' = [variant EXCEPT ![j] = variant[i]]
  /\ msg' = [msg EXCEPT ![j] = msg[i]]
  /\ trace' = [trace EXCEPT ![j] = trace[i]]
  /\ prev' = [prev EXCEPT ![j] = clone(drv[i])]
  /\ UNCHANGED <<host, out, outlen, nupd, nfin, fin, lastx, ncalls, pc, loc, kf>>

\* k.finalize(&mut output) with output.len() = len, on the driver of slot i
Finalize(i, len) ==
  /\ status[i] = "absorbing"
  /\ \E r \in {finalize(drv[i], FreshMem(len), len)} :
        /\ drv' = [drv EXCEPT ![i] = r.self]
        /\ out' = [out EXCEPT ![i] = r.mem]
        /\ fin' = [fin EXCEPT ![i] = [padded |-> r.padded, ev |-> r.ev]]
        /\ status' = [status EXCEPT ![i] = IF r.moved THEN "finalized" ELSE "absorbing"]
  /\ outlen' = [outlen EXCEPT ![i] = len]
  /\ nfin' = [nfin EXCEPT ![i] = @ + 1]
  /\ UNCHANGED <<host, variant, msg, nupd, trace, prev, lastx, ncalls, pc, loc, kf>>

\* the calls of a program that only feeds one driver
NextAbsorb ==
  \E x \in Chunks(drv[1]) : nupd[1] < MaxUpdates /\ Update(1, x)

\* the calls of a program that feeds, clones and finalizes
Next ==
  \/ \E i \in Inst : \E x \in LifeChunks : ncalls < MaxCalls /\ Update(i, x)
  \/ Clone(1, 2)
  \/ \E i \in Inst : \E len \in OutLens(i) : Finalize(i, len)

Spec == Init /\ [][Next]_vars

SpecAbsorb == InitAbsorb /\ [][NextAbsorb]_vars

----------------------------------------------------------------------------
(* update and finalize statement by statement: the loops of absorb and     *)
(* squeeze one iteration at a time, on the driver of slot 1.               *)

\* absorb entered with the whole rate as the room of the first block
absorb_enter_whole_rate(self, input) ==
  [input |-> input, rate |-> self.rate, ip |-> 0, l |-> Len(input), op |-> 0]

\* absorb, before its loop: rate = self.rate - self.offset; ip = 0; l = inlen
absorb_enter(self, input) ==
  [input |-> input, rate |-> self.rate - self.offset, ip |-> 0,
   l |-> Len(input), op |-> 0]

\* absorb's loop body: xorin(&mut a[self.offset..], &input[ip..], rate)
absorb_xorin(self, c) ==
  LET a == as_mut_bytes_slice(self.a)
  IN [self EXCEPT !.a = lanes_of(SubSeq(a, 1, self.offset)
                                 \o xorin(slice_from(a, self.offset),
                                          slice_from(c.input, c.ip), c.rate))]

\* absorb's loop body: keccakf(&mut self.a); ...; self.offset = 0
absorb_keccakf(self) == [self EXCEPT !.a = keccakf(self.a), !.offset = 0]

\* absorb's loop body with neither ip nor l moved
absorb_advance_stuck(self, c) == [c EXCEPT !.rate = self.rate]

\* absorb's loop body: ip += rate; l -= rate; rate = self.rate
absorb_advance(self, c) ==
  [c EXCEPT !.ip = c.ip + c.rate, !.l = c.l - c.rate, !.rate = self.rate]

\* squeeze, before its loop: rate = self.rate; op = 0; l = outlen
squeeze_enter(self, len) ==
  [input |-> <<>>, rate |-> self.rate, ip |-> 0, l |-> len, op |-> 0]

\* squeeze's loop body: op += rate; l -= rate
squeeze_advance(c) == [c EXCEPT !.op = c.op + c.rate, !.l = c.l - c.rate]

\* the constructors tried by SpecSteps
StepVariants == {"new_shake128", "new_keccak512", "new_sha3_256"}

\* the inputs tried: short, one that stops a byte before the block boundary,
\* one that runs over LongBlocks boundaries or more
StepChunks(self) ==
  {Hello, Pattern((self.rate - 1) - self.offset), Pattern((LongBlocks * self.rate) + 1)}

\* the output lengths tried: none, one whole block, OutBlocks blocks and a byte
StepLens(self) == {0, self.rate, (OutBlocks * self.rate) + 1}

InitSteps ==
  /\ host \in Hosts
  /\ kf = NoKeccakf
  /\ \E v \in StepVariants : Construct(v)

\* k.update(input): the call enters absorb
StepUpdate(input) ==
  /\ pc = "idle"
  /\ status[1] = "absorbing"
  /\ nupd[1] < MaxStepUpdates
  /\ pc' = "absorb_loop"
  /\ loc' = absorb_enter(drv[1], input)
  /\ prev' = [prev EXCEPT ![1] = drv[1]]
  /\ lastx' = [lastx EXCEPT ![1] = input]
  /\ UNCHANGED <<host, drv, status, out, outlen, variant, msg, nupd, nfin,
                 trace, fin, ncalls, kf>>

\* absorb: `while l >= rate` holds, xorin
StepAbsorbXorin ==
  /\ pc = "absorb_loop"
  /\ loc.l >= loc.rate
  /\ pc' = "absorb_keccakf"
  /\ drv' = [drv EXCEPT ![1] = absorb_xorin(drv[1], loc)]
  /\ trace' = [trace EXCEPT ![1] =
                 @ \o << <<"xorin", Len(msg[1]) + loc.ip, drv[1].offset, loc.rate>> >>]
  /\ UNCHANGED <<host, status, out, outlen, variant, msg, nupd, nfin, fin,
                 prev, lastx, ncalls, loc, kf>>

\* absorb: the rest of the loop body
StepAbsorbKeccakf ==
  /\ pc = "absorb_keccakf"
  /\ pc' = "absorb_loop"
  /\ drv' = [drv EXCEPT ![1] = absorb_keccakf(drv[1])]
  /\ loc' = absorb_advance(drv[1], loc)
  /\ trace' = [trace EXCEPT ![1] = @ \o << <<"keccakf">> >>]
  /\ UNCHANGED <<host, status, out, outlen, variant, msg, nupd, nfin, fin,
                 prev, lastx, ncalls, kf>>

\* absorb: `while l >= rate` fails, the last xorin, and update returns
StepAbsorbLast ==
  /\ pc = "absorb_loop"
  /\ loc.l < loc.rate
  /\ pc' = "idle"
  /\ \E r \in {absorb_last([self |-> drv[1], ip |-> loc.ip, l |-> loc.l, ev |-> <<>>],
                           loc.input)} :
        /\ drv' = [drv EXCEPT ![1] = r.self]
        /\ trace' = [trace EXCEPT ![1] =
                       @ \o << Rebase(r.ev[1], Len(msg[1])) >>]
  /\ loc' = NoLocals
  /\ msg' = [msg EXCEPT ![1] = @ \o loc.input]
  /\ nupd' = [nupd EXCEPT ![1] = @ + 1]
  /\ ncalls' = ncalls + 1
  /\ UNCHANGED <<host, status, out, outlen, variant, nfin, fin, prev, lastx, kf>>

\* k.finalize(&mut output) with output.len() = len: self.pad()
StepFinalize(len) ==
  /\ pc = "idle"
  /\ status[1] = "absorbing"
  /\ pc' = "finalize_keccakf"
  /\ \E p \in {pad(drv[1])} :
        /\ drv' = [drv EXCEPT ![1] = p]
        /\ fin' = [fin EXCEPT ![1] = [padded |-> p.a, ev |-> <<>>]]
  /\ out' = [out EXCEPT ![1] = FreshMem(len)]
  /\ outlen' = [outlen EXCEPT ![1] = len]
  /\ UNCHANGED <<host, status, variant, msg, nupd, nfin, trace, prev, lastx,
                 ncalls, loc, kf>>

\* finalize: keccakf(&mut self.a), then the call enters squeeze
StepFinalizeKeccakf ==
  /\ pc = "finalize_keccakf"
  /\ pc' = "squeeze_loop"
  /\ drv' = [drv EXCEPT ![1].a = keccakf(drv[1].a)]
  /\ loc' = squeeze_enter(drv[1], outlen[1])
  /\ UNCHANGED <<host, status, out, outlen, variant, msg, nupd, nfin, trace,
                 fin, prev, lastx, ncalls, kf>>

\* squeeze: `while l >= rate` holds, setout
StepSqueezeSetout ==
  /\ pc = "squeeze_loop"
  /\ loc.l >= loc.rate
  /\ pc' = "squeeze_keccakf"
  /\ out' = [out EXCEPT ![1] = setout(as_bytes_slice(drv[1].a), out[1], loc.op, loc.rate)]
  /\ fin' = [fin EXCEPT ![1].ev = @ \o << <<"setout", loc.op, loc.rate>> >>]
  /\ UNCHANGED <<host, drv, status, outlen, variant, msg, nupd, nfin, trace,
                 prev, lastx, ncalls, loc, kf>>

\* squeeze: the rest of the loop body
StepSqueezeKeccakf ==
  /\ pc = "squeeze_keccakf"
  /\ pc' = "squeeze_loop"
  /\ drv' = [drv EXCEPT ![1].a = keccakf(drv[1].a)]
  /\ loc' = squeeze_advance(loc)
  /\ fin' = [fin EXCEPT ![1].ev = @ \o << <<"keccakf">> >>]
  /\ UNCHANGED <<host, status, out, outlen, variant, msg, nupd, nfin, trace,
                 prev, lastx, ncalls, kf>>

\* squeeze: `while l >= rate` fails, the last setout, and finalize returns
StepSqueezeLast ==
  /\ pc = "squeeze_loop"
  /\ loc.l < loc.rate
  /\ pc' = "done"
  /\ \E r \in {squeeze_last([self |-> drv[1], mem |-> out[1], op |-> loc.op,
                            l |-> loc.l, ev |-> fin[1].ev])} :
        /\ out' = [out EXCEPT ![1] = r.mem]
        /\ fin' = [fin EXCEPT ![1].ev = r.ev]
  /\ loc' = NoLocals
  /\ status' = [status EXCEPT ![1] = "finalized"]
  /\ nfin' = [nfin EXCEPT ![1] = @ + 1]
  /\ UNCHANGED <<host, drv, outlen, variant, msg, nupd, trace, prev, lastx,
                 ncalls, kf>>

\* the statements of a call that has been entered
RunSteps ==
  \/ StepAbsorbXorin
  \/ StepAbsorbKeccakf
  \/ StepAbsorbLast
  \/ StepFinalizeKeccakf
  \/ StepSqueezeSetout
  \/ StepSqueezeKeccakf
  \/ StepSqueezeLast

NextSteps ==
  \/ \E x \in StepChunks(drv[1]) : StepUpdate(x)
  \/ \E len \in StepLens(drv[1]) : StepFinalize(len)
  \/ RunSteps

\* the positions of the caller: between calls, inside update, inside
\* finalize, after finalize
Positions ==
  {"idle", "absorb_loop", "absorb_keccakf", "finalize_keccakf", "squeeze_loop",
   "squeeze_keccakf", "done"}

\* the call that has been entered executes its next statement; within
\* NextSteps these are the steps of RunSteps, each of which moves pc
Running == pc \notin {"idle", "done"} /\ pc' \in Positions \ {pc}

\* a call that has been entered keeps running: nothing in it waits
SpecSteps == InitSteps /\ [][NextSteps]_vars /\ WF_pc(Running)

----------------------------------------------------------------------------
(* Properties of absorb, checked under SpecAbsorb.                         *)

\* the state of a driver that the streaming claims compare: 25 lanes and offset
Core(d) == <<d.a, d.offset>>

\* C1. Streaming equivalence: whenever update(y) follows update(x) on a
\* driver, the driver is left exactly as one update(x ++ y) from the state
\* before x would leave it (same 25 lanes, same offset); x is the input of the
\* call before (lastx), y the input of this call (lastx'), and prev the driver
\* before x.
C1_StreamingEquivalence ==
  [][\A i \in Inst :
       (nupd'[i] = nupd[i] + 1 /\ nupd[i] >= 1) =>
         \E one \in {update(prev[i], lastx[i] \o lastx'[i])} :
           Core(drv'[i]) = Core(one.self)]_vars

\* two updates were made, the first left the driver inside a block, the second
\* is longer than a block, and together they cross two block boundaries
C1_Witness ==
  /\ nupd[1] = 2
  /\ prev[1].offset > 0
  /\ Len(lastx[1]) > drv[1].rate
  /\ Len(msg[1]) > 2 * drv[1].rate
  /\ drv[1].offset > 0

\* the rate and delimiter the specification gives each constructor
TableRate(v) ==
  CASE v = "new_shake128" -> 168
    [] v \in {"new_shake256", "new_keccak256", "new_sha3_256"} -> 136
    [] v \in {"new_keccak224", "new_sha3_224"} -> 144
    [] v \in {"new_keccak384", "new_sha3_384"} -> 104
    [] v \in {"new_keccak512", "new_sha3_512"} -> 72

TableDelim(v) ==
  CASE v \in {"new_shake128", "new_shake256"} -> 31
    [] v \in {"new_keccak224", "new_keccak256", "new_keccak384", "new_keccak512"} -> 1
    [] v \in {"new_sha3_224", "new_sha3_256", "new_sha3_384", "new_sha3_512"} -> 6

\* C8. Every constructor gives the rate and the delimiter of the table
\* (168/136 for SHAKE128/256 with 0x1f; 144, 136, 104, 72 for the 224, 256,
\* 384, 512 variants with 0x01 for Keccak and 0x06 for SHA-3), 0 < rate <= 200,
\* all 25 lanes zero and offset 0 before the first update; and no update
\* changes rate or delimiter.
C8_ConstructorParameters ==
  \A i \in Inst :
    status[i] = "absorbing" =>
      /\ drv[i].rate = TableRate(variant[i])
      /\ drv[i].delim = TableDelim(variant[i])
      /\ 0 < drv[i].rate /\ drv[i].rate <= 200
      /\ (nupd[i] = 0 /\ msg[i] = <<>>) =>
           /\ Len(drv[i].a) = 25
           /\ \A n \in 1..25 : drv[i].a[n] = <<0, 0, 0, 0, 0, 0, 0, 0>>
           /\ drv[i].offset = 0

\* a 384-bit driver (rate 104) that has absorbed more than a block in two calls
C8_Witness ==
  /\ variant[1] = "new_keccak384"
  /\ nupd[1] = 2
  /\ Len(msg[1]) > 104
  /\ drv[1].rate = 104 /\ drv[1].delim = 1

\* C9. Offset invariant: after construction and after every update,
\* 0 <= offset < rate.
C9_OffsetBelowRate ==
  \A i \in Inst :
    status[i] = "absorbing" => (0 <= drv[i].offset /\ drv[i].offset < drv[i].rate)

\* an update ended exactly at a block boundary: offset is back at 0
C9_Witness ==
  /\ nupd[1] >= 1
  /\ Len(msg[1]) > 0
  /\ Len(msg[1]) % drv[1].rate = 0
  /\ drv[1].offset = 0

\* the events of a trace that are permutations
PermEvents(t) == {p \in 1..Len(t) : t[p][1] = "keccakf"}

\* the xorin events of a trace
XorEvents(t) == {p \in 1..Len(t) : t[p][1] = "xorin"}

\* the end (in the input stream) of the latest xorin before position p
StreamEndBefore(t, p) ==
  LET before == {q \in XorEvents(t) : q < p}
  IN IF before = {} THEN 0
     ELSE LET q == CHOOSE q \in before : \A r \in before : r <= q
          IN t[q][2] + t[q][4]

\* C10. Absorb block accounting: with n input bytes in all, offset = n mod
\* rate and the permutation ran floor(n / rate) times; the j-th permutation
\* comes right after the xorin that brings the stream to j * rate bytes, and
\* before any later byte; the xorin calls take the stream in order without gap,
\* and stream byte k goes to state byte k mod rate (a call starting at stream
\* index s writes from state byte s mod rate and stays below rate).
C10_BlockAccounting ==
  \A i \in Inst :
    status[i] = "absorbing" =>
      LET t == trace[i]
          n == Len(msg[i])
          rate == drv[i].rate
      IN /\ drv[i].offset = n % rate
         /\ Cardinality(PermEvents(t)) = n \div rate
         /\ StreamEndBefore(t, Len(t) + 1) = n
         /\ \A p \in XorEvents(t) :
              /\ t[p][2] = StreamEndBefore(t, p)
              /\ t[p][3] = t[p][2] % rate
              /\ t[p][3] + t[p][4] <= rate
         /\ \A p \in PermEvents(t) :
              /\ p > 1
              /\ t[p - 1][1] = "xorin"
              /\ t[p - 1][4] > 0
              /\ t[p - 1][2] + t[p - 1][4]
                   = rate * Cardinality({q \in PermEvents(t) : q <= p})

\* two updates that ran the permutation twice and left a partial block
C10_Witness ==
  /\ nupd[1] = 2
  /\ Cardinality(PermEvents(trace[1])) = 2
  /\ drv[1].offset > 0
  /\ Len(msg[1]) = (2 * drv[1].rate) + drv[1].offset

----------------------------------------------------------------------------
(* Properties of finalize and clone, checked under Spec.                   *)

\* hex digest strings of the tests, as bytes
Keccak256Empty ==
  <<197, 210, 70, 1, 134, 247, 35, 60, 146, 126, 125, 178, 220, 199, 3, 192,
    229, 0, 182, 83, 202, 130, 39, 59, 123, 250, 216, 4, 93, 133, 164, 112>>

Sha3_256Empty ==
  <<167, 255, 198, 248, 191, 30, 215, 102, 81, 193, 71, 86, 160, 97, 214, 98,
    245, 128, 255, 77, 228, 59, 73, 250, 130, 216, 10, 75, 128, 248, 67, 74>>

Sha3_256Hello ==
  <<51, 56, 190, 105, 79, 80, 197, 243, 56, 129, 73, 134, 205, 240, 104, 100,
    83, 168, 136, 184, 79, 66, 77, 121, 42, 244, 185, 32, 35, 152, 243, 146>>

\* the digest the standard gives slot i's input, where the tests state one
KnownAnswer(i) ==
  CASE variant[i] = "new_keccak256" /\ msg[i] = <<>> -> Keccak256Empty
    [] variant[i] = "new_sha3_256" /\ msg[i] = <<>> -> Sha3_256Empty
    [] variant[i] = "new_sha3_256" /\ msg[i] = Hello -> Sha3_256Hello
    [] OTHER -> <<>>

\* slot i was finalized into a 32-byte buffer and the tests state its digest
HasKnownAnswer(i) ==
  status[i] = "finalized" /\ outlen[i] = 32 /\ KnownAnswer(i) # <<>>

\* C2. Known answers: a driver fed M and finalized into a buffer of the digest
\* length holds the FIPS-202 / Keccak digest of M: Keccak-256 of the empty
\* input, SHA3-256 of the empty input and SHA3-256 of "hello" are the digests
\* of the tests.
C2_KnownAnswers ==
  \A i \in Inst :
    HasKnownAnswer(i) => SubSeq(out[i], 1, 32) = KnownAnswer(i)

\* the same on a little-endian host, where the tests of the crate pass
KnownAnswersLittleEndian ==
  \A i \in Inst :
    (host = "little" /\ HasKnownAnswer(i)) => SubSeq(out[i], 1, 32) = KnownAnswer(i)

RECURSIVE perm_views(_, _)
\* the bytes of keccakf^1(a), .., keccakf^n(a)
perm_views(a, n) ==
  IF n = 0 THEN <<>>
  ELSE LET p == keccakf(a)
       IN IF Len(p) = PLEN THEN <<as_bytes_slice(p)>> \o perm_views(p, n - 1) ELSE <<>>

\* blocks an output of len bytes is taken from
BlocksOf(len, rate) == IF len = 0 THEN 0 ELSE 1 + ((len - 1) \div rate)

\* C3. finalize pads, permutes once, then squeezes, and writes exactly the
\* cells 0 .. len - 1 of the output: the state it permutes is pad's, output
\* byte j is byte j mod rate of that state permuted 1 + floor(j / rate) times,
\* every setout stays inside the buffer and the cells behind it stay unwritten.
C3_FinalizeOutput ==
  [][\A i \in Inst :
       nfin'[i] = nfin[i] + 1 =>
         LET len == outlen'[i]
             rate == drv[i].rate
         IN /\ fin'[i].padded = pad(drv[i]).a
            /\ Len(out'[i]) = len + GuardLen
            /\ \E vs \in {perm_views(fin'[i].padded, BlocksOf(len, rate))} :
                 \A j \in 0..(len - 1) :
                   out'[i][j + 1] = vs[1 + (j \div rate)][(j % rate) + 1]
            /\ \A g \in (len + 1)..(len + GuardLen) : out'[i][g] = Untouched
            /\ \A p \in 1..Len(fin'[i].ev) :
                 fin'[i].ev[p][1] = "setout" =>
                   fin'[i].ev[p][2] + fin'[i].ev[p][3] <= len]_vars

\* a driver that absorbed input was finalized into a buffer longer than a
\* block and not a multiple of it
C3_Witness ==
  /\ status[1] = "finalized"
  /\ Len(msg[1]) > 0
  /\ outlen[1] > drv[1].rate
  /\ outlen[1] % drv[1].rate # 0
  /\ out[1][outlen[1]] < 256

Shake == {"new_shake128", "new_shake256"}

\* the smaller of two lengths
Min(m, n) == IF m <= n THEN m ELSE n

\* C4. SHAKE prefix: a SHAKE driver and its clone with the same input,
\* finalized into buffers of N <= M bytes: the N bytes of the one are the
\* first N bytes of the other.
C4_ShakePrefix ==
  ( /\ status[1] = "finalized" /\ status[2] = "finalized"
    /\ variant[1] \in Shake /\ variant[2] = variant[1]
    /\ msg[1] = msg[2] ) =>
      \A j \in 1..Min(outlen[1], outlen[2]) : out[1][j] = out[2][j]

\* N is one whole block, M is longer than a block, the input is not empty
C4_Witness ==
  /\ status[1] = "finalized" /\ status[2] = "finalized"
  /\ variant[1] \in Shake /\ variant[2] = variant[1]
  /\ msg[1] = msg[2] /\ Len(msg[1]) > 0
  /\ outlen[2] = drv[2].rate
  /\ outlen[1] > outlen[2]
  /\ out[1][outlen[1]] < 256

\* C5. A fixed-digest driver finalized into a buffer of another length than its
\* digest never returns normally with bytes written.
C5_MismatchedBufferIsFatal ==
  \A i \in Inst :
    ~ ( /\ status[i] = "finalized"
        /\ variant[i] \notin Shake
        /\ outlen[i] # DigestLen(variant[i])
        /\ \E m \in 1..outlen[i] : out[i][m] < 256 )

\* C6. Phase discipline: a driver starts absorbing, leaves that phase only by
\* finalize, is finalized at most once, and after its finalize nothing is
\* done to it: no update, no second finalize, no change.
C6_PhaseDiscipline ==
  /\ status[1] = "absorbing" /\ nupd[1] = 0 /\ nfin[1] = 0
  /\ [](\A i \in Inst :
          /\ status[i] = "unused" => (nupd[i] = 0 /\ nfin[i] = 0)
          /\ status[i] = "absorbing" => nfin[i] = 0
          /\ status[i] = "finalized" => nfin[i] = 1)
  /\ [][\A i \in Inst :
          /\ status[i] = "unused" => status'[i] \in {"unused", "absorbing"}
          /\ (status[i] = "absorbing" /\ status'[i] # "absorbing") =>
               (status'[i] = "finalized" /\ nfin'[i] = nfin[i] + 1)
          /\ status[i] = "finalized" =>
               /\ status'[i] = "finalized"
               /\ nupd'[i] = nupd[i] /\ nfin'[i] = nfin[i]
               /\ msg'[i] = msg[i] /\ drv'[i] = drv[i] /\ out'[i] = out[i]
          /\ nupd'[i] # nupd[i] => (status[i] = "absorbing" /\ nfin[i] = 0)
          /\ nfin'[i] # nfin[i] =>
               (status[i] = "absorbing" /\ status'[i] = "finalized")]_vars

\* a driver was fed and finalized while its clone is still absorbing
C6_Witness ==
  /\ status[1] = "finalized" /\ nupd[1] >= 1 /\ nfin[1] = 1
  /\ status[2] = "absorbing"

\* what finalize writes for a fresh driver of constructor v fed m in one update
Hash(v, m, len) ==
  finalize(update(construct(v), m).self, FreshMem(len), len).mem

\* C7. Clone independence: clone returns the lanes, offset, rate and delimiter
\* of the original and leaves the original as it is; an update or finalize of
\* one slot leaves the other slot's driver unchanged; so every finalize writes
\* the hash of what its own driver was given (the clone: the prefix absorbed
\* before the clone plus its own input; the original: all of its input).
C7_CloneIndependence ==
  [][/\ (status[2] = "unused" /\ status'[2] = "absorbing") =>
          /\ drv'[2].a = drv[1].a
          /\ drv'[2].offset = drv[1].offset
          /\ drv'[2].rate = drv[1].rate
          /\ drv'[2].delim = drv[1].delim
          /\ drv'[1] = drv[1]
     /\ \A i \in Inst :
          (nupd'[i] # nupd[i] \/ nfin'[i] # nfin[i]) =>
            \A j \in Inst \ {i} : drv'[j] = drv[j] /\ out'[j] = out[j]
     /\ \A i \in Inst :
          nfin'[i] = nfin[i] + 1 =>
            out'[i] = Hash(variant[i], msg[i], outlen'[i])]_vars

\* the clone was taken after "hello" and finalized; the original absorbed
\* "hello" again and was finalized: the two outputs differ
C7_Witness ==
  /\ status[1] = "finalized" /\ status[2] = "finalized"
  /\ msg[2] = Hello /\ nupd[2] = 0
  /\ msg[1] = Hello \o Hello
  /\ outlen[1] = outlen[2]
  /\ out[1] # out[2]

----------------------------------------------------------------------------
(* keccakf phase by phase, on an array of the caller.                      *)

\* an array with every lane set
SeedLanes(n) ==
  [k \in 1..PLEN |->
     [j \in 1..8 |-> ((n * ((31 * k) + (7 * j) + 1)) + (n * n * k)) % 256] \o <<>>] \o <<>>

\* the arrays handed to keccakf: all zero, the padded state of an empty
\* message, arrays with every lane set
Seeds ==
  {zero_lanes} \cup {pad(construct(v)).a : v \in StepVariants}
               \cup {SeedLanes(n) : n \in 1..MaxSeed}

InitKeccakf ==
  /\ host \in Hosts
  /\ Construct("new_keccak256")
  /\ \E s \in Seeds : kf = [a0 |-> s, a |-> s, i |-> 0, ph |-> "theta"]

\* round i: Theta
KeccakfTheta ==
  /\ kf.ph = "theta"
  /\ kf' = [kf EXCEPT !.a = theta(kf.a), !.ph = "rho_pi"]
  /\ UNCHANGED <<host, drv, status, out, outlen, variant, msg, nupd, nfin,
                 trace, fin, prev, lastx, ncalls, pc, loc>>

\* round i: Rho and pi
KeccakfRhoPi ==
  /\ kf.ph = "rho_pi"
  /\ kf' = [kf EXCEPT !.a = rho_pi(kf.a), !.ph = "chi"]
  /\ UNCHANGED <<host, drv, status, out, outlen, variant, msg, nupd, nfin,
                 trace, fin, prev, lastx, ncalls, pc, loc>>

\* round i: Chi
KeccakfChi ==
  /\ kf.ph = "chi"
  /\ kf' = [kf EXCEPT !.a = chi(kf.a), !.ph = "iota"]
  /\ UNCHANGED <<host, drv, status, out, outlen, variant, msg, nupd, nfin,
                 trace, fin, prev, lastx, ncalls, pc, loc>>

\* round i: Iota, and the step of `for i in 0..24`
KeccakfIota ==
  /\ kf.ph = "iota"
  /\ kf' = [kf EXCEPT !.a = iota(kf.a, kf.i), !.i = kf.i + 1,
                      !.ph = IF kf.i + 1 = 24 THEN "return" ELSE "theta"]
  /\ UNCHANGED <<host, drv, status, out, outlen, variant, msg, nupd, nfin,
                 trace, fin, prev, lastx, ncalls, pc, loc>>

NextKeccakf ==
  \/ KeccakfTheta
  \/ KeccakfRhoPi
  \/ KeccakfChi
  \/ KeccakfIota

SpecKeccakf == InitKeccakf /\ [][NextKeccakf]_vars

----------------------------------------------------------------------------
(* The statements of SpecSteps against the calls as a whole.               *)

\* a call run statement by statement leaves what the call as a whole leaves
StepsAgreeWithCalls ==
  /\ (pc = "idle" /\ nupd[1] > 0) => drv[1] = update(prev[1], lastx[1]).self
  /\ pc = "done" => out[1] = Hash(variant[1], msg[1], outlen[1])

----------------------------------------------------------------------------
(* Padding.                                                                *)

\* state byte m of the driver, as the byte view of its lane array gives it
StateByte(self, m) == as_bytes_slice(self.a)[m + 1]

\* state byte m after padding a driver whose state byte m was old
PaddedByte(self, m, old) ==
  IF m = self.offset /\ m = self.rate - 1 THEN bxor(bxor(old, self.delim), 128)
  ELSE IF m = self.offset THEN bxor(old, self.delim)
  ELSE IF m = self.rate - 1 THEN bxor(old, 128)
  ELSE old

\* C11: the pad step of finalize XORs delim into state byte `offset` and 0x80
\* into state byte `rate - 1` and changes nothing else: every other state byte,
\* offset, rate and delim stay; when offset = rate - 1 the one byte becomes
\* old XOR delim XOR 0x80.
C11_PadEffect ==
  [][(pc = "idle" /\ pc' = "finalize_keccakf") =>
       /\ drv'[1].offset = drv[1].offset
       /\ drv'[1].rate = drv[1].rate
       /\ drv'[1].delim = drv[1].delim
       /\ \A m \in 0..((8 * PLEN) - 1) :
            StateByte(drv'[1], m) = PaddedByte(drv[1], m, StateByte(drv[1], m))]_vars

\* padding has acted on a driver stopped at offset = rate - 1, the byte before
\* the call being the one update left
C11_Witness ==
  /\ pc = "finalize_keccakf"
  /\ nupd[1] = 1
  /\ drv[1].offset = drv[1].rate - 1
  /\ StateByte(drv[1], drv[1].offset)
       = bxor(bxor(StateByte(update(prev[1], lastx[1]).self, drv[1].offset),
                   drv[1].delim), 128)

----------------------------------------------------------------------------
(* The permutations inside squeeze.                                        *)

\* the keccakf calls among the recorded events of a squeeze
SqueezePerms(ev) == Cardinality({n \in 1..Len(ev) : ev[n] = <<"keccakf">>})

\* the bytes the setout calls among the first n events have produced
RECURSIVE Produced(_, _)
Produced(ev, n) ==
  IF n = 0 THEN 0
  ELSE Produced(ev, n - 1) + (IF ev[n][1] = "setout" THEN ev[n][3] ELSE 0)

\* what squeeze's loop does: one keccakf per whole block of output, also
\* after the block that completes the output
SqueezePermsOfLoop ==
  pc = "done" => SqueezePerms(fin[1].ev) = outlen[1] \div drv[1].rate

\* C12: producing L > 0 bytes applies the permutation exactly
\* ceil(L / rate) - 1 times inside squeeze, and never once L bytes have been
\* produced.
C12_PermuteOnlyBetweenChunks ==
  (pc \in {"squeeze_loop", "squeeze_keccakf", "done"} /\ outlen[1] > 0) =>
    /\ \A n \in 1..Len(fin[1].ev) :
         fin[1].ev[n] = <<"keccakf">> => Produced(fin[1].ev, n) < outlen[1]
    /\ pc = "done" =>
         SqueezePerms(fin[1].ev) = ((outlen[1] + drv[1].rate - 1) \div drv[1].rate) - 1

----------------------------------------------------------------------------
(* Capacity isolation.                                                     *)

\* the capacity of the driver: the lanes that hold state bytes rate .. 199
Capacity(self) == SubSeq(self.a, (self.rate \div 8) + 1, PLEN)

\* the state-byte indices at which the driver's state differs between two steps
ChangedBytes(before, after) ==
  {m \in 0..((8 * PLEN) - 1) : StateByte(before, m) # StateByte(after, m)}

\* the length of the xorin or setout the loop of the running call does next
NextLen == IF loc.l >= loc.rate THEN loc.rate ELSE loc.l

\* C13: every state-byte index absorb XORs into, pad XORs into and squeeze
\* copies out of lies in [0, rate); the capacity bytes rate .. 199 are changed
\* by keccakf only, never written from input and never copied to the output.
C13_CapacityIsolation ==
  /\ [](\A n \in 1..Len(trace[1]) :
          trace[1][n][1] = "xorin" =>
            /\ 0 <= trace[1][n][3]
            /\ trace[1][n][3] + trace[1][n][4] <= drv[1].rate)
  /\ [](\A n \in 1..Len(fin[1].ev) :
          fin[1].ev[n][1] = "setout" => fin[1].ev[n][3] <= drv[1].rate)
  /\ [][/\ Capacity(drv'[1]) # Capacity(drv[1]) =>
             pc \in {"absorb_keccakf", "finalize_keccakf", "squeeze_keccakf"}
        /\ pc = "absorb_loop" =>
             /\ drv[1].offset + NextLen <= drv[1].rate
             /\ ChangedBytes(drv[1], drv'[1])
                  \subseteq (drv[1].offset)..(drv[1].offset + NextLen - 1)
        /\ (pc = "idle" /\ pc' = "finalize_keccakf") =>
             /\ drv[1].offset < drv[1].rate
             /\ drv[1].rate <= 8 * PLEN
             /\ ChangedBytes(drv[1], drv'[1]) \subseteq {drv[1].offset, drv[1].rate - 1}
        /\ pc = "squeeze_loop" =>
             /\ NextLen <= drv[1].rate
             /\ drv'[1] = drv[1]
             /\ \A m \in 1..Len(out[1]) :
                  out'[1][m] # out[1][m] =>
                    /\ m - loc.op \in 1..NextLen
                    /\ out'[1][m] = StateByte(drv[1], (m - loc.op) - 1)]_vars

\* a driver stopped inside a block has absorbed across the block boundary,
\* padded and squeezed more than a block, with a capacity that is not zero
C13_Witness ==
  /\ pc = "done"
  /\ prev[1].offset > 0
  /\ Len(lastx[1]) > drv[1].rate
  /\ outlen[1] > drv[1].rate
  /\ Capacity(drv[1]) # Capacity(construct(variant[1]))

----------------------------------------------------------------------------
(* The round function of Keccak-f[1600] as the specification states it, on *)
(* lanes A[x, y] = a[x + 5y], and keccakf against it.                      *)

\* A[x, y]
RefLane(a, x, y) == a[(x + (5 * y)) + 1]

\* theta: B[x] is the parity of column x; A[x, y] ^= B[(x - 1) mod 5] ^ rotl(B[(x + 1) mod 5], 1)
RefParity(a) ==
  [x \in 0..4 |->
     xor(xor(xor(xor(RefLane(a, x, 0), RefLane(a, x, 1)), RefLane(a, x, 2)),
             RefLane(a, x, 3)), RefLane(a, x, 4))]

RefThetaOf(a, b) ==
  [n \in 1..PLEN |->
     xor(a[n], xor(b[((n - 1) + 4) % 5], rotate_left(b[((n - 1) + 1) % 5], 1)))] \o <<>>

RefTheta(a) == RefThetaOf(a, RefParity(a))

\* the walk of rho: (x, y) = (1, 0), then (x, y) <- (y, (2x + 3y) mod 5)
RECURSIVE RefWalk(_)
RefWalk(t) ==
  IF t = 0 THEN <<1, 0>>
  ELSE LET p == RefWalk(t - 1) IN <<p[2], ((2 * p[1]) + (3 * p[2])) % 5>>

\* the rotation of lane (x, y): 0 for (0, 0), (t + 1)(t + 2)/2 mod 64 for the
\* t-th lane of the walk
RefRotation(x, y) ==
  IF x = 0 /\ y = 0 THEN 0
  ELSE LET t == CHOOSE u \in 0..23 : RefWalk(u) = <<x, y>>
       IN (((t + 1) * (t + 2)) \div 2) % 64

\* rho then pi: lane (x, y), rotated, moves to (y, (2x + 3y) mod 5)
RefRhoPi(a) ==
  [n \in 1..PLEN |->
     LET p == CHOOSE q \in (0..4) \X (0..4) :
                 q[2] = (n - 1) % 5 /\ ((2 * q[1]) + (3 * q[2])) % 5 = (n - 1) \div 5
     IN rotate_left(RefLane(a, p[1], p[2]), RefRotation(p[1], p[2]))] \o <<>>

\* chi: A[x, y] = B[x, y] ^ (~B[x + 1, y] & B[x + 2, y])
RefChi(a) ==
  [n \in 1..PLEN |->
     LET x == (n - 1) % 5
         y == (n - 1) \div 5
     IN xor_not_and(RefLane(a, x, y), RefLane(a, (x + 1) % 5, y),
                    RefLane(a, (x + 2) % 5, y))] \o <<>>

\* the register of the round-constant LFSR x^8 + x^6 + x^5 + x^4 + 1 after n steps
RECURSIVE RefLfsr(_)
RefLfsr(n) ==
  IF n = 0 THEN 1
  ELSE LET r == RefLfsr(n - 1)
       IN bxor((2 * r) % 256, IF r >= 128 THEN 113 ELSE 0)

\* bit 2^j - 1 of the constant of round i
RefRcBit(i, j) == (RefLfsr((7 * i) + j + 1) \div 2) % 2

\* the constant of round i
RefRC(i) ==
  <<RefRcBit(i, 0) + (2 * RefRcBit(i, 1)) + (8 * RefRcBit(i, 2)) + (128 * RefRcBit(i, 3)),
    128 * RefRcBit(i, 4), 0, 128 * RefRcBit(i, 5), 0, 0, 0, 128 * RefRcBit(i, 6)>>

\* iota: A[0, 0] ^= RC[i]
RefIota(a, i) == [a EXCEPT ![1] = xor(a[1], RefRC(i))]

\* one round, and rounds i .. 23
RefRound(a, i) == RefIota(RefChi(RefRhoPi(RefTheta(a))), i)

RECURSIVE RefRounds(_, _)
RefRounds(a, i) == IF i = 24 THEN a ELSE RefRounds(RefRound(a, i) \o <<>>, i + 1)

\* C14: keccakf computes the reference round function applied 24 times with
\* i = 0 .. 23: each phase of each round is the reference theta, rho-pi, chi
\* and iota; rho-pi leaves lane 0 alone and PI names each index 1 .. 24
\* exactly once; the array keccakf returns is the reference result.
C14_KeccakfIsReference ==
  /\ [][/\ kf.ph = "theta" => kf'.a = RefTheta(kf.a)
        /\ kf.ph = "rho_pi" => kf'.a = RefRhoPi(kf.a) /\ kf'.a[1] = kf.a[1]
        /\ kf.ph = "chi" => kf'.a = RefChi(kf.a)
        /\ kf.ph = "iota" => kf'.a = RefIota(kf.a, kf.i) /\ kf'.i = kf.i + 1]_vars
  /\ [](kf.ph = "return" =>
          /\ kf.i = 24
          /\ kf.a = keccakf(kf.a0)
          /\ kf.a = RefRounds(kf.a0, 0))
  /\ [](/\ Len(PI) = 24
        /\ {PI[n] : n \in 1..24} = 1..24)

\* keccakf has returned on the all-zero array, with the known first lane
\* 0xF1258F7940E1DDE7
C14_Witness ==
  /\ kf.ph = "return"
  /\ kf.a0 = zero_lanes
  /\ kf.a[1] = <<231, 221, 225, 64, 121, 143, 37, 241>>

----------------------------------------------------------------------------
(* The serialization of the lanes.                                         *)

\* bits 8 * (m mod 8) .. 8 * (m mod 8) + 7 of lane floor(m / 8)
LittleEndianByte(self, m) == self.a[(m \div 8) + 1][(m % 8) + 1]

\* the serialization holds on a little-endian target
LittleEndianOnLittleEndianHost ==
  host = "little" =>
    \A m \in 0..((8 * PLEN) - 1) : StateByte(drv[1], m) = LittleEndianByte(drv[1], m)

\* C15: the state byte m that absorb, pad and squeeze address is bits
\* 8 * (m mod 8) .. 8 * (m mod 8) + 7 of lane floor(m / 8), whatever the byte
\* order of the host.
C15_LittleEndianLanes ==
  \A m \in 0..((8 * PLEN) - 1) : StateByte(drv[1], m) = LittleEndianByte(drv[1], m)

----------------------------------------------------------------------------
(* Termination of update and finalize.                                     *)

\* C16: update and finalize terminate: each iteration of absorb's and of
\* squeeze's loop takes a positive amount from the remaining length l
\* (rate - offset > 0 on absorb's first iteration, rate > 0 afterwards), no
\* subtraction goes below zero, and every call that was entered returns.
C16_Termination ==
  /\ [][/\ (pc = "idle" /\ pc' = "absorb_loop") =>
             /\ drv[1].offset <= drv[1].rate
             /\ loc'.rate = drv[1].rate - drv[1].offset
             /\ loc'.rate > 0
             /\ loc'.l = Len(loc'.input)
        /\ pc = "absorb_keccakf" =>
             /\ loc.rate > 0
             /\ loc.l >= loc.rate
             /\ loc'.l = loc.l - loc.rate
             /\ 0 <= loc'.l /\ loc'.l < loc.l
             /\ loc'.ip = loc.ip + loc.rate
             /\ loc'.ip + loc'.l = Len(loc.input)
             /\ loc'.rate = drv[1].rate /\ loc'.rate > 0
        /\ (pc = "finalize_keccakf" /\ pc' = "squeeze_loop") =>
             /\ loc'.rate = drv[1].rate /\ loc'.rate > 0
             /\ loc'.l = outlen[1]
        /\ pc = "squeeze_keccakf" =>
             /\ loc.rate > 0
             /\ loc.l >= loc.rate
             /\ loc'.l = loc.l - loc.rate
             /\ 0 <= loc'.l /\ loc'.l < loc.l
             /\ loc'.op + loc'.l = outlen[1]
             /\ loc'.rate = loc.rate]_vars
  /\ (pc \in {"absorb_loop", "absorb_keccakf"}) ~> (pc = "idle")
  /\ (pc \in {"finalize_keccakf", "squeeze_loop", "squeeze_keccakf"}) ~> (pc = "done")

\* both calls have returned after their loops iterated: absorb's from a
\* driver stopped inside a block, squeeze's at least once
C16_Witness ==
  /\ pc = "done"
  /\ nupd[1] = MaxStepUpdates
  /\ prev[1].offset > 0
  /\ \E n \in 1..Len(trace[1]) : trace[1][n] = <<"keccakf">> /\ n > 2
  /\ SqueezePerms(fin[1].ev) > 0

====
